---- MODULE Spec2Model ----
(***************************************************************************)
(* Model of dataopstoolbox/dataset_splitter.py: the category-based         *)
(* partition engine.  A tabular file is loaded as a lazy query, gated on   *)
(* its schema, passed through the null policy, its distinct category       *)
(* values are resolved, and one write task per category is run on a        *)
(* thread pool (concurrent.futures.ThreadPoolExecutor).                    *)
(*                                                                         *)
(* A table is a sequence of rows; a row is a record [cat, val]: cat is the *)
(* category column (a string or None, the polars null), val stands for the *)
(* remaining columns and holds the row's number in the file.               *)
(***************************************************************************)
EXTENDS Integers, Sequences, FiniteSets, TLC

\* ---------------------------------------------------------------- bounds
MaxRows == 2
MaxDirRows == 1
MaxFiles == 2

\* ThreadPoolExecutor() without max_workers: min(32, cpu_count + 4) threads,
\* taken for a machine with one CPU
MaxWorkers == 5

\* ------------------------------------------------------- input universes
None == "<None>"
category_col == "cat"
CategoryValues == {"A", "B"}
FillValues == {None, "A", "Z"}
KnownFormats == {"csv", "txt", "parquet", "xlsx"}
OutputFormats == {"csv", "parquet", "json"}
\* the values of the OutputFileFormat enum, the only ones the command line
\* hands to main
CliFormats == {"csv", "txt", "parquet", "xlsx"}
\* who calls: the command (main), or a caller of process_file with a frame
\* of its own
Entries == {"main", "process_file"}
OutputSeparators == {";"}
FileStems == <<"f1", "f2", "f3">>

Range(s) == {s[i] : i \in DOMAIN s}

\* tables of n rows whose val column is the row number
TablesOfLen(n) ==
    {[i \in 1..n |-> [cat |-> cs[i], val |-> i]] :
        cs \in [1..n -> CategoryValues \cup {None}]}

Tables == UNION {TablesOfLen(n) : n \in 0..MaxRows}

\* the smaller tables held by the files of a directory
DirTables == UNION {TablesOfLen(n) : n \in 0..MaxDirRows}

\* what a directory holds: a good file, one without the category column,
\* one that cannot be opened or parsed
FileKinds == {"ok", "nocol", "unreadable"}

MkFile(i, kind, rows) ==
    [stem     |-> FileStems[i],
     readable |-> kind # "unreadable",
     columns  |-> IF kind = "nocol" THEN {"val"} ELSE {category_col, "val"},
     rows     |-> IF kind = "ok" THEN rows ELSE <<>>]

\* ------------------------------------------------------------ pure parts

\* process_file, Fill policy: pl.col(category_col).fill_null(fill_null_value)
FillNull(rows, value) ==
    [i \in DOMAIN rows |->
        IF rows[i].cat = None THEN [rows[i] EXCEPT !.cat = value] ELSE rows[i]]

\* process_file, Skip policy: query.filter(pl.col(category_col).is_not_null())
FilterNotNull(rows) == SelectSeq(rows, LAMBDA r : r.cat # None)

ApplyNullPolicyAlwaysSkip(rows, fill_null_value) == FilterNotNull(rows)

ApplyNullPolicy(rows, fill_null_value) ==
    IF fill_null_value # None
    THEN FillNull(rows, fill_null_value)
    ELSE FilterNotNull(rows)

\* an empty column resolves to one null category
UniqueCategoriesNullOnEmpty(rows) ==
    IF rows = <<>> THEN {None} ELSE {rows[i].cat : i \in DOMAIN rows}

\* _extract_unique_categories: the distinct values of the column (a null,
\* if one is left, is a value of its own)
UniqueCategories(rows) == {rows[i].cat : i \in DOMAIN rows}

\* no .unique(): a value may be listed more than once
ListingsNotDeduplicated(S) == [1..Cardinality(S) -> S]

\* .unique() keeps no order: every listing of the distinct values
Listings(S) ==
    {s \in [1..Cardinality(S) -> S] : \A i, j \in DOMAIN s : s[i] = s[j] => i = j}

ValidateSchemaAlways(columns) == TRUE

\* validate_schema
ValidateSchema(columns) == category_col \in columns

\* save_category_files: filter(pl.col(category_col).eq(category)); a null
\* never compares equal
FilterCategoryNe(rows, category) ==
    SelectSeq(rows, LAMBDA r : r.cat # None /\ r.cat # category)

FilterCategoryAll(rows, category) ==
    SelectSeq(rows, LAMBDA r : r.cat # None)

FilterCategory(rows, category) ==
    SelectSeq(rows, LAMBDA r : r.cat # None /\ r.cat = category)

\* save_category_files: select(pl.all().exclude(category_col))
ExcludeCategoryCol(rows) == [i \in DOMAIN rows |-> [val |-> rows[i].val]]

CategoryFrame(rows, category, keep_category_col) ==
    IF keep_category_col
    THEN FilterCategory(rows, category)
    ELSE ExcludeCategoryCol(FilterCategory(rows, category))

SavePathSwapped(category, file_name, output_format, append_category_to_file_name) ==
    IF append_category_to_file_name
    THEN [dir |-> category, stem |-> file_name, suffix |-> "", ext |-> output_format]
    ELSE [dir |-> "", stem |-> file_name, suffix |-> category, ext |-> output_format]

\* save_category_files: the path under output_dir; dir is the subdirectory
\* ("" for none), suffix the "_<category>" part of the file name
SavePath(category, file_name, output_format, append_category_to_file_name) ==
    IF ~append_category_to_file_name
    THEN [dir |-> category, stem |-> file_name, suffix |-> "", ext |-> output_format]
    ELSE [dir |-> "", stem |-> file_name, suffix |-> category, ext |-> output_format]

\* split_and_save_by_category: save_functions.get(output_format, write_csv)
SaveFunction(output_format) ==
    CASE output_format \in {"csv", "txt"} -> "write_csv"
      [] output_format = "parquet" -> "write_parquet"
      [] output_format = "xlsx" -> "write_excel"
      [] OTHER -> "write_csv"

\* process_file: separator=output_separator is passed for csv and txt only
WriterKwargs(output_format, output_separator) ==
    IF output_format \in {"csv", "txt"} THEN output_separator ELSE None

\* ----------------------------------------------------------------- state
VARIABLES
    args,        \* main's options
    files,       \* the files main iterates over
    idx,         \* position of main in files
    pc,          \* where main is
    query,       \* load_data's result for the current file
    lazy_df,     \* process_file: the table after the null policy
    categories,  \* process_file: the resolved category list
    futures,     \* split_and_save_by_category: state of each submitted task
    outcome,     \* how far each task's save_category_files has come
    yielded,     \* futures as_completed has handed to the loop
    exc,         \* the exception propagating out of the loop (task index)
    call,        \* state of the split_and_save_by_category call
    dirs,        \* directories created under output_dir
    written,     \* files under output_dir: path -> content
    log,         \* loguru messages of main and validate_schema
    run,         \* which run of the program this is
    prev         \* outcome of the previous run

vars == <<args, files, idx, pc, query, lazy_df, categories, futures, outcome,
          yielded, exc, call, dirs, written, log, run, prev>>

NoQuery == [stem |-> "", readable |-> FALSE, columns |-> {}, rows |-> <<>>]
NoPrev == [categories |-> {}, written |-> <<>>, call |-> "idle"]

Args ==
    [entry             : Entries,
     input_is_dir      : BOOLEAN,
     make_dir          : BOOLEAN,
     keep_category_col : BOOLEAN,
     output_format     : OutputFormats,
     output_separator  : OutputSeparators,
     fill_null_value   : FillValues]

\* the files of one input: a single file, or the listing of a directory; the
\* good files of one input hold the same table under different names
KindLists(is_dir) ==
    UNION {[1..n -> FileKinds] : n \in (IF is_dir THEN 0..MaxFiles ELSE {1})}

Inputs(is_dir) ==
    {[i \in DOMAIN kinds |-> MkFile(i, kinds[i], rows)] :
        kinds \in KindLists(is_dir), rows \in (IF is_dir THEN DirTables ELSE Tables)}

\* main gets an output format of the enum and loads its files itself;
\* process_file called directly gets any string as output format and a frame
\* that holds the category column
Init ==
    /\ args \in Args
    /\ files \in Inputs(args.input_is_dir)
    /\ idx = 1
    /\ IF args.entry = "main"
       THEN /\ args.output_format \in CliFormats
            /\ pc = IF files = <<>> THEN "done" ELSE "load"
            /\ query = NoQuery
       ELSE /\ ~args.input_is_dir
            /\ files[1].readable
            /\ category_col \in files[1].columns
            /\ pc = "process"
            /\ query = files[1]
    /\ lazy_df = <<>>
    /\ categories = <<>>
    /\ futures = <<>>
    /\ outcome = <<>>
    /\ yielded = {}
    /\ exc = 0
    /\ call = "idle"
    /\ dirs = {}
    /\ written = <<>>
    /\ log = <<>>
    /\ run = 1
    /\ prev = NoPrev

\* --------------------------------------------------------------- helpers
\* a task that has only started counts as done
TerminalOrRunning == {"running", "finished", "failed"}

\* the states of a future that is done: as_completed yields it, shutdown
\* no longer waits for it
Terminal == {"finished", "failed"}

Running(fs) == {i \in DOMAIN fs : fs[i] = "running"}

\* overwrite or create the file at path
WriteFile(fs, path, content) ==
    [p \in DOMAIN fs \cup {path} |-> IF p = path THEN content ELSE fs[p]]

LogLine(level, stem) == [level |-> level, file |-> stem]

\* what the task of categories[i] hands to save_function
TaskPath(i) ==
    SavePath(categories[i], query.stem, args.output_format, ~args.make_dir)

\* the frame of the last category of the list, whatever i is
TaskContentLastCategory(i) ==
    [rows      |-> CategoryFrame(lazy_df, categories[Len(categories)],
                                 args.keep_category_col),
     writer    |-> SaveFunction(args.output_format),
     separator |-> WriterKwargs(args.output_format, args.output_separator),
     complete  |-> TRUE]

TaskContent(i) ==
    [rows      |-> CategoryFrame(lazy_df, categories[i], args.keep_category_col),
     writer    |-> SaveFunction(args.output_format),
     separator |-> WriterKwargs(args.output_format, args.output_separator),
     complete  |-> TRUE]

\* what save_path holds while its writer is at work, and what a writer that
\* raised leaves there: the first k rows
PartialContent(i, k) ==
    [TaskContent(i) EXCEPT !.rows = SubSeq(@, 1, k), !.complete = FALSE]

ShutdownNoWait(fs) == TRUE

\* the with block's exit: executor.shutdown(wait=True) returns once no
\* submitted task is pending or running
ShutdownWait(fs) == \A i \in DOMAIN fs : fs[i] \in Terminal

\* the list comprehension stops after the first category
AllSubmittedFirstOnly(fs, cats) == Len(fs) >= 1

\* the list comprehension has submitted a task for every category
AllSubmitted(fs, cats) == Len(fs) = Len(cats)

\* main: the for loop goes on with the next file, or main ends
NextFile ==
    IF args.input_is_dir /\ idx < Len(files)
    THEN idx' = idx + 1 /\ pc' = "load"
    ELSE idx' = idx /\ pc' = "done"

\* --------------------------------------------------------------- actions

\* main: in directory mode the "Reading file" message, then load_data for
\* the current file; a file that cannot be opened or parsed raises, and the
\* exception lands in main's only except clause
LoadData ==
    /\ pc = "load"
    /\ LET reading == IF args.input_is_dir
                       THEN <<LogLine("info", files[idx].stem)>>
                       ELSE <<>>
       IN  IF files[idx].readable
           THEN /\ query' = files[idx]
                /\ pc' = "validate"
                /\ log' = log \o reading
           ELSE /\ log' = (log \o reading) \o <<LogLine("error", files[idx].stem)>>
                /\ pc' = "done"
                /\ UNCHANGED query
    /\ call' = "idle"
    /\ UNCHANGED <<args, files, idx, lazy_df, categories, futures, outcome,
                   yielded, exc, dirs, written, run, prev>>

\* main: validate_schema, and the skip of a file without the column
Validate ==
    /\ pc = "validate"
    /\ IF ValidateSchema(query.columns)
       THEN /\ pc' = "process"
            /\ UNCHANGED <<idx, log>>
       ELSE /\ log' = log \o <<LogLine("warning", query.stem),
                               LogLine("warning", query.stem)>>
            /\ NextFile
    /\ UNCHANGED <<args, files, query, lazy_df, categories, futures, outcome,
                   yielded, exc, call, dirs, written, run, prev>>

\* process_file up to the executor: null policy, category list, mkdir of
\* the category directories, writer lookup
ProcessFile ==
    /\ pc = "process"
    /\ lazy_df' = ApplyNullPolicy(query.rows, args.fill_null_value)
    /\ categories' \in Listings(UniqueCategories(lazy_df'))
    /\ dirs' = IF args.make_dir THEN dirs \cup Range(categories') ELSE dirs
    /\ futures' = <<>>
    /\ outcome' = <<>>
    /\ yielded' = {}
    /\ exc' = 0
    /\ call' = "active"
    /\ pc' = IF categories' = <<>> THEN "exit_with" ELSE "submit"
    /\ UNCHANGED <<args, files, idx, query, written, log, run, prev>>

\* executor.submit for the next category of the list
Submit ==
    /\ pc = "submit"
    /\ futures' = Append(futures, "pending")
    /\ outcome' = Append(outcome, "none")
    /\ pc' = IF AllSubmitted(futures', categories) THEN "collect" ELSE "submit"
    /\ UNCHANGED <<args, files, idx, query, lazy_df, categories, yielded, exc,
                   call, dirs, written, log, run, prev>>

\* a free worker takes the oldest queued task
StartTask ==
    /\ \E i \in DOMAIN futures :
        /\ futures[i] = "pending"
        /\ \A j \in 1..(i - 1) : futures[j] # "pending"
        /\ Cardinality(Running(futures)) < MaxWorkers
        /\ futures' = [futures EXCEPT ![i] = "running"]
    /\ UNCHANGED <<args, files, idx, pc, query, lazy_df, categories, outcome,
                   yielded, exc, call, dirs, written, log, run, prev>>

\* the tasks whose save_category_files is still at work: before
\* save_function has opened save_path ("none") or while it fills it
\* ("writing")
AtWork == {i \in Running(futures) : outcome[i] \in {"none", "writing"}}

\* save_function opens save_path: the file is created, or emptied, and holds
\* no row yet; the other threads run on
TaskCreate ==
    /\ \E i \in AtWork :
        /\ outcome[i] = "none"
        /\ written' = WriteFile(written, TaskPath(i), PartialContent(i, 0))
        /\ outcome' = [outcome EXCEPT ![i] = "writing"]
    /\ UNCHANGED <<args, files, idx, pc, query, lazy_df, categories, futures,
                   yielded, exc, call, dirs, log, run, prev>>

\* save_function puts the next row of the frame into the open file
TaskAppend ==
    /\ \E i \in AtWork :
        /\ outcome[i] = "writing"
        /\ Len(written[TaskPath(i)].rows) < Len(TaskContent(i).rows)
        /\ written' = WriteFile(written, TaskPath(i),
                        PartialContent(i, Len(written[TaskPath(i)].rows) + 1))
    /\ UNCHANGED <<args, files, idx, pc, query, lazy_df, categories, futures,
                   outcome, yielded, exc, call, dirs, log, run, prev>>

\* save_function has put every row, closes the file and returns, and so does
\* save_category_files; the future is still running
TaskWrite ==
    /\ \E i \in AtWork :
        /\ outcome[i] = "writing"
        /\ Len(written[TaskPath(i)].rows) = Len(TaskContent(i).rows)
        /\ written' = WriteFile(written, TaskPath(i), TaskContent(i))
        /\ outcome' = [outcome EXCEPT ![i] = "returned"]
    /\ UNCHANGED <<args, files, idx, pc, query, lazy_df, categories, futures,
                   yielded, exc, call, dirs, log, run, prev>>

\* save_category_files raises: before save_path was created, or after it was
\* created with none, some or all of its rows in it; nothing removes the file
TaskRaise ==
    /\ \E i \in AtWork :
        outcome' = [outcome EXCEPT ![i] = "raised"]
    /\ UNCHANGED <<args, files, idx, pc, query, lazy_df, categories, futures,
                   yielded, exc, call, dirs, written, log, run, prev>>

\* the worker thread stores the task's return: the future is finished
SetResult ==
    /\ \E i \in Running(futures) :
        /\ outcome[i] = "returned"
        /\ futures' = [futures EXCEPT ![i] = "finished"]
    /\ UNCHANGED <<args, files, idx, pc, query, lazy_df, categories, outcome,
                   yielded, exc, call, dirs, written, log, run, prev>>

\* the worker thread stores the task's exception: the future has failed
SetException ==
    /\ \E i \in Running(futures) :
        /\ outcome[i] = "raised"
        /\ futures' = [futures EXCEPT ![i] = "failed"]
    /\ UNCHANGED <<args, files, idx, pc, query, lazy_df, categories, outcome,
                   yielded, exc, call, dirs, written, log, run, prev>>

\* one turn of the as_completed loop: future.result() of a finished task
\* returns, of a failed one raises out of the loop
Collect ==
    /\ pc = "collect"
    /\ \E i \in DOMAIN futures \ yielded :
        /\ futures[i] \in Terminal
        /\ yielded' = yielded \cup {i}
        /\ IF futures[i] = "failed"
           THEN exc' = i /\ pc' = "exit_with"
           ELSE /\ exc' = exc
                /\ pc' = IF yielded' = DOMAIN futures THEN "exit_with" ELSE "collect"
    /\ UNCHANGED <<args, files, idx, query, lazy_df, categories, futures,
                   outcome, call, dirs, written, log, run, prev>>

\* the with block is left: shutdown(wait=True); then the call returns to
\* process_file and main (info, next file) or the exception reaches main's
\* except clause, which logs it and ends main; a direct caller of
\* process_file gets the return or the exception itself
ExitWith ==
    /\ pc = "exit_with"
    /\ ShutdownWait(futures)
    /\ call' = IF exc # 0 THEN "raised" ELSE "returned"
    /\ IF args.entry # "main"
       THEN pc' = "done" /\ UNCHANGED <<idx, log>>
       ELSE IF exc # 0
            THEN /\ log' = Append(log, LogLine("error", query.stem))
                 /\ pc' = "done"
                 /\ UNCHANGED idx
            ELSE /\ log' = Append(log, LogLine("info", query.stem))
                 /\ NextFile
    /\ UNCHANGED <<args, files, query, lazy_df, categories, futures, outcome,
                   yielded, exc, dirs, written, run, prev>>

Next ==
    \/ LoadData
    \/ Validate
    \/ ProcessFile
    \/ Submit
    \/ StartTask
    \/ TaskCreate
    \/ TaskAppend
    \/ TaskWrite
    \/ TaskRaise
    \/ SetResult
    \/ SetException
    \/ Collect
    \/ ExitWith

Spec == Init /\ [][Next]_vars

\* the program is run a second time on the same input with the same options
\* and an emptied output directory; TwiceInit takes the single-file inputs
\* written as delimited text whose nulls are skipped or filled with a value
\* of the column
Rerun ==
    /\ pc = "done"
    /\ run = 1
    /\ prev' = [categories |-> Range(categories), written |-> written, call |-> call]
    /\ run' = 2
    /\ idx' = 1
    /\ pc' = "load"
    /\ query' = NoQuery
    /\ lazy_df' = <<>>
    /\ categories' = <<>>
    /\ futures' = <<>>
    /\ outcome' = <<>>
    /\ yielded' = {}
    /\ exc' = 0
    /\ call' = "idle"
    /\ dirs' = {}
    /\ written' = <<>>
    /\ log' = <<>>
    /\ UNCHANGED <<args, files>>

NextTwice == Next \/ Rerun

TwiceInit ==
    /\ Init
    /\ args.entry = "main"
    /\ ~args.input_is_dir
    /\ args.output_format = "csv"
    /\ args.fill_null_value \in {None} \cup CategoryValues

SpecTwice == TwiceInit /\ [][NextTwice]_vars

\* threads of the pool and the main thread keep running, and a write ends;
\* the delimited-text runs that keep the category column are enough to
\* exercise the fan-out
FairInit == Init /\ args.output_format = "csv" /\ args.keep_category_col

FairSpec == FairInit /\ [][Next]_vars /\ WF_vars(Next)

TypeOK ==
    /\ pc \in {"load", "validate", "process", "submit", "collect", "exit_with", "done"}
    /\ call \in {"idle", "active", "returned", "raised"}
    /\ idx \in 1..(MaxFiles + 1)
    /\ run \in 1..2
    /\ DOMAIN outcome = DOMAIN futures
    /\ \A i \in DOMAIN outcome : outcome[i] \in {"none", "writing", "returned", "raised"}

\* ---------------------------------------------------------------- claims
Vals(p) == {written[p].rows[k].val : k \in DOMAIN written[p].rows}

\* the output files of file stem that carry category c in their path
PartitionsOf(stem, c) ==
    {p \in DOMAIN written : p.stem = stem /\ (p.dir = c \/ p.suffix = c)}

\* the rows of a partition of c with the category column put back
Restored(rows, c) ==
    IF args.keep_category_col
    THEN rows
    ELSE [k \in DOMAIN rows |-> [cat |-> c, val |-> rows[k].val]]

Occurrences(seq, r) == Cardinality({k \in DOMAIN seq : seq[k] = r})

MissingColumn(f) == f.readable /\ category_col \notin f.columns

UnknownFormat == args.output_format \notin KnownFormats

Logged(level, stem) == \E k \in DOMAIN log : log[k] = [level |-> level, file |-> stem]

\* C1 (Completeness): once the fan-out of a file has returned without error,
\* every resolved category c has exactly one partition file, and its rows
\* (category column restored) are the rows of the post-null-policy table
\* whose category is c, each exactly once and no other row.
C1_Completeness ==
    call = "returned" =>
        \A c \in Range(categories) :
            /\ Cardinality(PartitionsOf(query.stem, c)) = 1
            /\ \A p \in PartitionsOf(query.stem, c) :
                LET got == Restored(written[p].rows, c) IN
                /\ \A i \in DOMAIN lazy_df :
                    lazy_df[i].cat = c => Occurrences(got, lazy_df[i]) = 1
                /\ \A k \in DOMAIN got :
                    \E i \in DOMAIN lazy_df : lazy_df[i] = got[k] /\ lazy_df[i].cat = c

C1_Witness ==
    /\ call = "returned"
    /\ ~args.keep_category_col
    /\ Len(categories) >= 2
    /\ \A c \in Range(categories) : \E p \in PartitionsOf(query.stem, c) :
        written[p].complete /\ Len(written[p].rows) >= 1

\* C2 (Disjointness): two different output files of one input file never
\* hold the same input row (rows are told apart by their row number).
C2_Disjointness ==
    \A p1, p2 \in DOMAIN written :
        (p1 # p2 /\ p1.stem = p2.stem) => Vals(p1) \cap Vals(p2) = {}

C2_Witness ==
    \E p1, p2 \in DOMAIN written :
        p1 # p2 /\ p1.stem = p2.stem /\ Vals(p1) # {} /\ Vals(p2) # {}

\* C3 (Null policy): with a fill value no row is dropped and, once the
\* fan-out has returned, every row is in some partition and every row whose
\* category was null is in the partition of the fill value; without a fill
\* value the category list never holds null and no partition ever holds a
\* row whose category was null.
C3_NullPolicy ==
    /\ (args.fill_null_value # None /\ call # "idle") =>
            Len(lazy_df) = Len(query.rows)
    /\ (args.fill_null_value # None /\ call = "returned") =>
            \A i \in DOMAIN query.rows :
                /\ \E p \in DOMAIN written : p.stem = query.stem /\ i \in Vals(p)
                /\ query.rows[i].cat = None =>
                    \E p \in PartitionsOf(query.stem, args.fill_null_value) :
                        i \in Vals(p)
    /\ args.fill_null_value = None =>
            /\ None \notin Range(categories)
            /\ \A p \in DOMAIN written : \A i \in DOMAIN files :
                files[i].stem = p.stem =>
                    \A v \in Vals(p) : files[i].rows[v].cat # None

C3_Witness ==
    /\ args.fill_null_value = "A"
    /\ call = "returned"
    /\ \E i, j \in DOMAIN query.rows :
        /\ query.rows[i].cat = None
        /\ query.rows[j].cat = "A"
        /\ \E p \in PartitionsOf(query.stem, "A") : {i, j} \subseteq Vals(p)

\* C4 (Schema gate): a file without the category column never gets an
\* output file, process_file is never entered for it, and the step that
\* rejects it creates no directory, logs a warning and, in directory mode,
\* moves on to the next file of the batch.
C4_SchemaGateState ==
    \A i \in DOMAIN files :
        MissingColumn(files[i]) =>
            /\ \A p \in DOMAIN written : p.stem # files[i].stem
            /\ pc \in {"process", "submit", "collect", "exit_with"} => idx # i
            /\ idx > i => Logged("warning", files[i].stem)

C4_SchemaGateStep ==
    (pc = "validate" /\ MissingColumn(query)) =>
        /\ dirs' = dirs
        /\ written' = written
        /\ futures' = futures
        /\ \E k \in DOMAIN log' : log'[k] = [level |-> "warning", file |-> query.stem]
        /\ IF args.input_is_dir /\ idx < Len(files)
           THEN pc' = "load" /\ idx' = idx + 1
           ELSE pc' = "done"

C4_SchemaGate == [](C4_SchemaGateState) /\ [][C4_SchemaGateStep]_vars

C4_Witness ==
    /\ args.input_is_dir
    /\ Len(files) >= 2
    /\ MissingColumn(files[1])
    /\ idx = 2
    /\ call = "returned"
    /\ written # <<>>
    /\ Logged("warning", files[1].stem)

\* C5 as stated: with an output format outside csv, txt, parquet, xlsx the
\* run fails before a directory is created, a task submitted or a file
\* written.
C5_FailsFast ==
    UnknownFormat =>
        /\ dirs = {}
        /\ futures = <<>>
        /\ written = <<>>
        /\ call # "returned"

\* C6 (Join-all): when split_and_save_by_category has returned or raised,
\* one task per category was submitted and every one of them has finished
\* or failed; and a call that was entered does return or raise.
C6_JoinAllState ==
    call \in {"returned", "raised"} =>
        /\ Len(futures) = Len(categories)
        /\ \A i \in DOMAIN futures : futures[i] \in {"finished", "failed"}

C6_JoinAll ==
    /\ [](C6_JoinAllState)
    /\ (call = "active") ~> (call \in {"returned", "raised"})

C6_Witness ==
    /\ call = "returned"
    /\ Len(futures) >= 2
    /\ \A i \in DOMAIN futures : futures[i] = "finished"

\* C7 (Failure policy): when the call has raised, the exception is that of
\* the one failed task the loop observed, every submitted task has run to
\* its end, and every task whose write succeeded has its whole file; no
\* step removes an output file or drops a task that is queued or running.
C7_FailurePolicyState ==
    call = "raised" =>
        /\ exc \in yielded
        /\ \A i \in yielded : (futures[i] = "failed") = (i = exc)
        /\ Len(futures) = Len(categories)
        /\ \A i \in DOMAIN futures :
            /\ futures[i] \in {"finished", "failed"}
            /\ futures[i] = "finished" =>
                \E p \in PartitionsOf(query.stem, categories[i]) :
                    written[p] = TaskContent(i)

C7_FailurePolicyStep ==
    /\ \A p \in DOMAIN written : p \in DOMAIN written'
    /\ \A i \in DOMAIN futures :
        futures[i] \in {"pending", "running"} =>
            (i \in DOMAIN futures' /\ futures'[i] \in {"pending", "running", "finished", "failed"})

C7_FailurePolicy == [](C7_FailurePolicyState) /\ [][C7_FailurePolicyStep]_vars

C7_Witness ==
    /\ call = "raised"
    /\ \E i \in DOMAIN futures \ yielded :
        /\ futures[i] = "finished"
        /\ \E p \in PartitionsOf(query.stem, categories[i]) : written[p].complete

\* C8 as stated: in directory mode a file that cannot be opened or parsed
\* is skipped and the loop goes on, so that main ends only after the last
\* file of the batch was reached.
C8_BatchContinues ==
    (/\ pc = "done"
     /\ args.input_is_dir
     /\ \E i \in DOMAIN files :
            ~files[i].readable /\ Logged("error", files[i].stem))
        => idx = Len(files)

\* C9 (Output path layout): the task of category c writes to
\* output_dir/c/<basename>.<ext> when make_dir holds and to
\* output_dir/<basename>_c.<ext> when it does not, every output file has the
\* one layout of the run, and with make_dir the directory of c exists when
\* the task of c is submitted.
C9_PathLayout ==
    /\ \A i \in DOMAIN futures :
        (call # "idle" /\ args.make_dir) => categories[i] \in dirs
    /\ \A i \in DOMAIN futures :
        (call # "idle" /\ futures[i] = "finished") =>
            (IF args.make_dir
             THEN [dir |-> categories[i], stem |-> query.stem, suffix |-> "",
                   ext |-> args.output_format]
             ELSE [dir |-> "", stem |-> query.stem, suffix |-> categories[i],
                   ext |-> args.output_format]) \in DOMAIN written
    /\ \A p \in DOMAIN written :
        IF args.make_dir
        THEN p.suffix = "" /\ p.dir \in dirs
        ELSE p.dir = "" /\ p.suffix # ""

C9_Witness ==
    /\ args.make_dir
    /\ call = "returned"
    /\ Len(categories) >= 2
    /\ Cardinality(DOMAIN written) >= 2

\* C10 (Idempotence): in a second run of the same file with the same
\* options into an empty output directory, the set of resolved categories
\* is that of the first run, every partition written to its end in both
\* runs holds the same rows, and two runs that both returned without error
\* wrote the same partitions.
C10_Idempotence ==
    run = 2 =>
        /\ (call # "idle" /\ prev.call # "idle") =>
                Range(categories) = prev.categories
        /\ \A p \in DOMAIN written \cap DOMAIN prev.written :
                (written[p].complete /\ prev.written[p].complete) =>
                    written[p] = prev.written[p]
        /\ (call = "returned" /\ prev.call = "returned") =>
                /\ DOMAIN written = DOMAIN prev.written
                /\ \A p \in DOMAIN written :
                    written[p].complete /\ prev.written[p].complete

C10_Witness ==
    /\ run = 2
    /\ call = "returned"
    /\ prev.call = "returned"
    /\ Len(categories) >= 2
    /\ Cardinality(DOMAIN written) >= 2

\* C11 (Exclusive output paths): the resolved category list holds no value
\* twice and no two tasks of a file have the same output path (so two
\* running tasks never write the same path); every output file of the file
\* is at the path of exactly one task, one that has run its writer, and
\* every task whose writer returned has its file: a task produces at most
\* one file, and that file is its own.
C11_ExclusivePaths ==
    call # "idle" =>
        LET mine == {p \in DOMAIN written : p.stem = query.stem} IN
        /\ \A i, j \in DOMAIN categories :
            i # j => categories[i] # categories[j]
        /\ \A i, j \in DOMAIN futures :
            i # j => TaskPath(i) # TaskPath(j)
        /\ \A p \in mine :
            Cardinality({i \in DOMAIN futures :
                            TaskPath(i) = p /\ outcome[i] # "none"}) = 1
        /\ Cardinality({i \in DOMAIN futures : outcome[i] = "returned"})
            <= Cardinality(mine)
        /\ Cardinality(mine)
            <= Cardinality({i \in DOMAIN futures : outcome[i] # "none"})

C11_Witness ==
    /\ call = "active"
    /\ \E i, j \in AtWork :
        /\ i # j
        /\ outcome[i] = "writing" /\ outcome[j] = "writing"
        /\ {TaskPath(i), TaskPath(j)} \subseteq DOMAIN written

\* C12 (Sequential files): while main loads, validates or enters
\* process_file for a file, no task is queued or running: every task of the
\* file before it has finished or failed, so tasks of two files are never
\* in the pool together.
C12_SequentialFiles ==
    pc \in {"load", "validate", "process"} =>
        \A i \in DOMAIN futures : futures[i] \in {"finished", "failed"}

C12_Witness ==
    /\ args.input_is_dir
    /\ idx = 2
    /\ pc = "validate"
    /\ query = files[2]
    /\ Len(futures) >= 1
    /\ \E p \in DOMAIN written : p.stem = files[1].stem /\ written[p].complete

\* C13 (Empty category set): when no row is left after the null policy, the
\* category list is empty, no task is submitted, no file of the input is
\* written and the call does not raise; the step of process_file that
\* finds the table empty creates no directory and writes nothing.
C13_EmptyState ==
    (call # "idle" /\ lazy_df = <<>>) =>
        /\ categories = <<>>
        /\ futures = <<>>
        /\ exc = 0
        /\ call # "raised"
        /\ \A p \in DOMAIN written : p.stem # query.stem
        /\ \A k \in DOMAIN log : log[k] # [level |-> "error", file |-> query.stem]

C13_EmptyStep ==
    (/\ pc = "process"
     /\ \/ query.rows = <<>>
        \/ /\ args.fill_null_value = None
           /\ \A i \in DOMAIN query.rows : query.rows[i].cat = None)
        => /\ lazy_df' = <<>>
           /\ categories' = <<>>
           /\ dirs' = dirs
           /\ written' = written
           /\ futures' = <<>>

C13_EmptyCategorySet == [](C13_EmptyState) /\ [][C13_EmptyStep]_vars

C13_Witness ==
    /\ call = "returned"
    /\ args.make_dir
    /\ args.fill_null_value = None
    /\ Len(query.rows) >= 2
    /\ \A i \in DOMAIN query.rows : query.rows[i].cat = None
    /\ categories = <<>>
    /\ dirs = {}
    /\ written = <<>>

====
